---- MODULE Spec2Model ----
(***************************************************************************)
(* Model of the st2kv lookup plugin (lookup_plugins/st2kv.py):             *)
(* LookupModule.run and LookupModule.parse_scope_key.                      *)
(*                                                                         *)
(* Python strings are sequences of one-character strings, so that split,   *)
(* join and format act on characters.  Python's None is the value None     *)
(* below.  A dict entry (a keyword argument, an environment variable) is a *)
(* set with at most one element: {} when the key is not in the dict, {v}   *)
(* when it maps to v.                                                      *)
(*                                                                         *)
(* run() is modelled one loop iteration per step: each iteration blocks in *)
(* requests.get, which is where the rest of the process (and the server)   *)
(* acts.  The module is modelled with the requests library importable      *)
(* (HAS_REQUESTS true).                                                    *)
(***************************************************************************)
EXTENDS Naturals, Sequences, FiniteSets, TLC

\* ------------------------------------------------------------------ bounds
\* Longest generated term, in characters.
MaxLen == 3
\* Longest batch of terms.
MaxTerms == 3

\* ------------------------------------------------------------ Python values
\* None: a one-element sequence whose element is no character, so it differs
\* from every string.
None == <<"<None>">>

\* Python truthiness of a string-or-None value (`if x:` / `if not x:`).
Truthy(v) == v # None /\ v # <<>>

\* dict.get(key, default) on an entry.
Get(entry, default) == IF entry = {} THEN default ELSE CHOOSE v \in entry : TRUE

\* ------------------------------------------------------------ string literals
S_https == <<"h","t","t","p","s",":","/","/">>
S_api == <<"/","a","p","i">>
S_localhost == <<"l","o","c","a","l","h","o","s","t">>
S_colon == <<":">>
S_v1_keys == <<"/","v","1","/","k","e","y","s","/">>
S_scope == <<"?","s","c","o","p","e","=">>
S_decrypt == <<"&","d","e","c","r","y","p","t","=","t","r","u","e">>
S_user == <<"&","u","s","e","r","=">>
S_system == <<"s","y","s","t","e","m">>

\* ------------------------------------------------------------ parse_scope_key
\* str.split(sep) of a string: the parts between the separators ('' splits
\* to ['']).
RECURSIVE split(_, _)
split(s, sep) ==
    IF s = <<>> THEN << <<>> >>
    ELSE LET rest == split(Tail(s), sep)
         IN IF Head(s) = sep
            THEN << <<>> >> \o rest
            ELSE << <<Head(s)>> \o Head(rest) >> \o Tail(rest)

\* sep.join(parts)
RECURSIVE join(_, _)
join(sep, parts) ==
    IF parts = <<>> THEN <<>>
    ELSE IF Len(parts) = 1 THEN parts[1]
    ELSE parts[1] \o <<sep>> \o join(sep, Tail(parts))

\* A raise of AnsibleError out of parse_scope_key.
ParseRaise(cause) == [raised |-> {cause}, scope |-> <<>>, key |-> <<>>]
ParseReturn(scope, key) == [raised |-> {}, scope |-> scope, key |-> key]

\* The parser as the docstring describes it: a first part "st2kv" is removed
\* before the two-part rule.  Not what the code does.
parse_scope_key_strip_st2kv(term) ==
    IF ~Truthy(term) THEN ParseRaise("invalid_term")
    ELSE LET parts == split(term, ".")
             rest == IF Len(parts) > 1 /\ parts[1] = <<"s","t","2","k","v">>
                     THEN Tail(parts) ELSE parts
         IN IF Len(rest) = 1 THEN ParseReturn(S_system, rest[1])
            ELSE ParseReturn(rest[1], join(".", Tail(rest)))

\* The parser with the key cut at the second '.'.
parse_scope_key_second_part(term) ==
    IF ~Truthy(term) THEN ParseRaise("invalid_term")
    ELSE LET parts == split(term, ".")
         IN IF Len(parts) = 1 THEN ParseReturn(S_system, parts[1])
            ELSE ParseReturn(parts[1], parts[2])

\* The parser without the empty check: None has no split, '' splits to [''].
parse_scope_key_no_empty_check(term) ==
    IF term = None THEN ParseRaise("attribute_error")
    ELSE LET parts == split(term, ".")
         IN IF Len(parts) = 1 THEN ParseReturn(S_system, parts[1])
            ELSE ParseReturn(parts[1], join(".", Tail(parts)))

parse_scope_key(term) ==
    IF ~Truthy(term) THEN ParseRaise("invalid_term")
    ELSE LET parts == split(term, ".")
         IN IF Len(parts) = 1 THEN ParseReturn(S_system, parts[1])
            ELSE IF Len(parts) < 2 THEN ParseRaise("no_scope")
            ELSE ParseReturn(parts[1], join(".", Tail(parts)))

\* ------------------------------------------------------------------ run: inputs
\* Responses of the datastore to one GET, as the code tells them apart:
\* requests.get raising, raise_for_status raising, json() raising, a body
\* without "value", or a body with it.
Values == {"v1", "v2"}
Responses ==
    {[kind |-> k, value |-> "v1"] :
        k \in {"conn_error", "http_error", "bad_json", "no_value"}}
    \cup {[kind |-> "ok", value |-> v] : v \in Values}

VARIABLES
    terms,              \* run's argument: the batch of terms
    kwargs,             \* run's keyword arguments, one entry per option
    environ,            \* os.environ, the three variables run reads
    pc,                 \* "loop", "returned" or "raised"
    idx,                \* position of the for loop in terms (1-based)
    term,               \* the loop variable
    api_url,            \* locals of run, as last assigned
    headers,
    scope,
    key,
    values,             \* the list run builds
    requests,           \* every requests.get call made, in order
    responses,          \* what the datastore answered to each, in order
    warnings_disabled,  \* urllib3.disable_warnings() was called
    result,             \* {} or {the list returned}
    error               \* {} or {the AnsibleError raised}

vars == <<terms, kwargs, environ, pc, idx, term, api_url, headers, scope, key,
          values, requests, responses, warnings_disabled, result, error>>

\* A local that no statement has assigned yet.
Unbound == <<"<unbound>">>

\* ------------------------------------------------------------------ run: steps
\* The base URL with hostname and port swapped.
resolve_api_url_port_first(kw) ==
    LET given == Get(kw.api_url, None)
    IN IF Truthy(given) THEN given
       ELSE LET hostname == Get(kw.hostname, S_localhost)
                port == Get(kw.port, None)
            IN IF Truthy(port)
               THEN S_https \o port \o S_colon \o hostname \o S_api
               ELSE S_https \o hostname \o S_api

\* lines 123-130
resolve_api_url(kw) ==
    LET given == Get(kw.api_url, None)
    IN IF Truthy(given) THEN given
       ELSE LET hostname == Get(kw.hostname, S_localhost)
                port == Get(kw.port, None)
            IN IF Truthy(port)
               THEN S_https \o hostname \o S_colon \o port \o S_api
               ELSE S_https \o hostname \o S_api

\* The token with the two environment variables read in the other order.
resolve_auth_token_env_swapped(kw, env) ==
    LET t1 == Get(kw.auth_token, None)
        t2 == IF ~Truthy(t1) THEN Get(env.ST2_AUTH_TOKEN, None) ELSE t1
    IN IF ~Truthy(t2) THEN Get(env.ST2_ACTION_AUTH_TOKEN, None) ELSE t2

\* lines 140-144
resolve_auth_token(kw, env) ==
    LET t1 == Get(kw.auth_token, None)
        t2 == IF ~Truthy(t1) THEN Get(env.ST2_ACTION_AUTH_TOKEN, None) ELSE t1
    IN IF ~Truthy(t2) THEN Get(env.ST2_AUTH_TOKEN, None) ELSE t2

\* lines 149-151
resolve_api_key(kw, env) ==
    LET k1 == Get(kw.api_key, None)
    IN IF ~Truthy(k1) THEN Get(env.ST2_API_KEY, None) ELSE k1

\* lines 156-166: the headers dict as a set of entries, or the raise.
build_headers(auth_token, api_key) ==
    IF Truthy(auth_token)
    THEN [raised |-> {},
          headers |-> {[name |-> "X-Auth-Token", value |-> auth_token]}]
    ELSE IF Truthy(api_key)
    THEN [raised |-> {},
          headers |-> {[name |-> "St2-Api-Key", value |-> api_key]}]
    ELSE [raised |-> {"no_auth"}, headers |-> {}]

\* The URL with user appended before decrypt.
build_url_user_first(base, sc, k, decrypt, user) ==
    base \o S_v1_keys \o k \o S_scope \o sc
        \o (IF Truthy(user) THEN S_user \o user ELSE <<>>)
        \o (IF decrypt THEN S_decrypt ELSE <<>>)

\* lines 172-177
build_url(base, sc, k, decrypt, user) ==
    base \o S_v1_keys \o k \o S_scope \o sc
        \o (IF decrypt THEN S_decrypt ELSE <<>>)
        \o (IF Truthy(user) THEN S_user \o user ELSE <<>>)

\* lines 180-185: what the statements after requests.get do with a response.
handle_response(resp) ==
    IF resp.kind = "ok" THEN [raised |-> {}, value |-> resp.value]
    ELSE [raised |-> {resp.kind}, value |-> resp.value]

\* lines 123-185: one pass through the loop body for term t, the datastore
\* answering resp if it is asked.  `at` is how far the body got.
loop_body(t, kw, env, resp) ==
    LET base == resolve_api_url(kw)
        ssl_verify == Get(kw.ssl_verify, TRUE)
        auth_token == resolve_auth_token(kw, env)
        api_key == resolve_api_key(kw, env)
        decrypt == Get(kw.decrypt, FALSE)
        user == Get(kw.user, None)
        h == build_headers(auth_token, api_key)
        p == parse_scope_key(t)
        url == build_url(base, p.scope, p.key, decrypt, user)
        r == handle_response(resp)
        common == [api_url |-> base, warn |-> ~ssl_verify, headers |-> h.headers]
    IN IF h.raised # {}
       THEN [at |-> "headers", raised |-> h.raised, sent |-> <<>>,
             value |-> resp.value, scope |-> <<>>, key |-> <<>>] @@ common
       ELSE IF p.raised # {}
       THEN [at |-> "parse", raised |-> p.raised, sent |-> <<>>,
             value |-> resp.value, scope |-> <<>>, key |-> <<>>] @@ common
       ELSE [at |-> "get", raised |-> r.raised,
             sent |-> <<[url |-> url, headers |-> h.headers, verify |-> ssl_verify]>>,
             value |-> r.value, scope |-> p.scope, key |-> p.key] @@ common

\* An except clause that swallows the error and goes on with the next term.
after_iteration_continue(raised, t, i) ==
    [pc |-> "loop", idx |-> i + 1, error |-> {}]

\* lines 122, 186-188: the loop goes on to the next term, or the except
\* clause raises the AnsibleError naming the loop variable and the cause.
after_iteration(raised, t, i) ==
    IF raised = {}
    THEN [pc |-> "loop", idx |-> i + 1, error |-> {}]
    ELSE [pc |-> "raised", idx |-> i,
          error |-> {[term |-> t, cause |-> CHOOSE c \in raised : TRUE]}]

\* values.insert(0, v) in place of values.append(v).
append_value_front(vs, v) == <<v>> \o vs

\* line 185
append_value(vs, v) == Append(vs, v)

\* lines 122-188: one iteration of the for loop.
Iterate ==
    /\ pc = "loop"
    /\ idx <= Len(terms)
    /\ \E resp \in Responses :
         LET t == terms[idx]
             b == loop_body(t, kwargs, environ, resp)
             after == after_iteration(b.raised, t, idx)
         IN /\ term' = t
            /\ api_url' = b.api_url
            /\ warnings_disabled' = (warnings_disabled \/ b.warn)
            /\ headers' = b.headers
            /\ scope' = IF b.at = "get" THEN b.scope ELSE scope
            /\ key' = IF b.at = "get" THEN b.key ELSE key
            /\ requests' = requests \o b.sent
            /\ responses' = IF b.at = "get" THEN Append(responses, resp)
                            ELSE responses
            /\ values' = IF b.raised = {} THEN append_value(values, b.value)
                         ELSE values
            /\ pc' = after.pc
            /\ idx' = after.idx
            /\ error' = after.error
    /\ UNCHANGED <<terms, kwargs, environ, result>>

\* line 190: the loop is exhausted and run returns the list.
Return ==
    /\ pc = "loop"
    /\ idx > Len(terms)
    /\ pc' = "returned"
    /\ result' = {values}
    /\ UNCHANGED <<terms, kwargs, environ, idx, term, api_url, headers, scope,
                   key, values, requests, responses, warnings_disabled,
                   error>>

\* ------------------------------------------------------------------ inputs
\* Credential values, one per source, so that a header tells its source.
TokArg == <<"t","1">>
TokAction == <<"t","2">>
TokAuth == <<"t","3">>
KeyArg == <<"k","1">>
KeyEnv == <<"k","2">>

Alphabet == {"a", "."}
Strings == UNION {[1..n -> Alphabet] : n \in 0..MaxLen}

T_my_key == <<"m","y","_","k","e","y">>
T_system_my_coolkey ==
    <<"s","y","s","t","e","m",".","m","y",".","c","o","o","l","k","e","y">>
T_user_mykey == <<"u","s","e","r",".","m","y","k","e","y">>
T_st2kv_system_mykey ==
    <<"s","t","2","k","v",".","s","y","s","t","e","m",".","m","y","k","e","y">>
ExampleTerms == {T_my_key, T_system_my_coolkey, T_user_mykey, T_st2kv_system_mykey}

U_h_api == <<"h","t","t","p","s",":","/","/","h","/","a","p","i">>
H_st2_example == <<"s","t","2",".","e","x","a","m","p","l","e">>
P_9101 == <<"9","1","0","1">>
N_dave == <<"d","a","v","e">>

Batches(pool) == UNION {[1..n -> pool] : n \in 0..MaxTerms}

NoKwargs ==
    [api_url |-> {}, hostname |-> {}, port |-> {}, ssl_verify |-> {},
     auth_token |-> {}, api_key |-> {}, decrypt |-> {}, user |-> {}]
NoEnviron ==
    [ST2_ACTION_AUTH_TOKEN |-> {}, ST2_AUTH_TOKEN |-> {}, ST2_API_KEY |-> {}]

\* The state on entry to run(terms, **kwargs) with os.environ = env.
Enter(ts, kw, env) ==
    /\ terms = ts
    /\ kwargs = kw
    /\ environ = env
    /\ pc = "loop"
    /\ idx = 1
    /\ term = Unbound
    /\ api_url = Unbound
    /\ headers = {}
    /\ scope = Unbound
    /\ key = Unbound
    /\ values = <<>>
    /\ requests = <<>>
    /\ responses = <<>>
    /\ warnings_disabled = FALSE
    /\ result = {}
    /\ error = {}

\* Batches of valid and invalid terms, with and without credentials.
BatchTerms == {<<"a">>, <<"u",".","k">>, <<>>, None}
Init ==
    \E ts \in Batches(BatchTerms) :
    \E tok \in {{}, {TokArg}} : \E k \in {{}, {KeyArg}} :
    \E v \in {{}, {FALSE}} :
        Enter(ts,
              [NoKwargs EXCEPT !.auth_token = tok, !.api_key = k, !.ssl_verify = v],
              NoEnviron)

Next == Iterate \/ Return

Spec == Init /\ [][Next]_vars

\* One term, every string up to MaxLen and the examples of the documentation,
\* under every setting of the options that shape the URL.
InitUrl ==
    \E t \in Strings \cup ExampleTerms \cup {None} :
    \E u \in {{}, {<<>>}, {U_h_api}} :
    \E h \in {{}, {<<>>}, {H_st2_example}} :
    \E p \in {{}, {<<>>}, {P_9101}} :
    \E d \in {{}, {FALSE}, {TRUE}} :
    \E n \in {{}, {<<>>}, {N_dave}} :
        Enter(<<t>>,
              [NoKwargs EXCEPT !.api_key = {KeyArg}, !.api_url = u, !.hostname = h,
                               !.port = p, !.decrypt = d, !.user = n],
              NoEnviron)

SpecUrl == InitUrl /\ [][Next]_vars

\* Batches of one valid term under every combination of the five credential
\* sources, each absent, None or empty, or set.
InitCred ==
    \E ts \in Batches({<<"a">>}) :
    \E tok \in {{}, {None}, {<<>>}, {TokArg}} :
    \E k \in {{}, {None}, {<<>>}, {KeyArg}} :
    \E e1 \in {{}, {<<>>}, {TokAction}} :
    \E e2 \in {{}, {<<>>}, {TokAuth}} :
    \E e3 \in {{}, {<<>>}, {KeyEnv}} :
        Enter(ts,
              [NoKwargs EXCEPT !.auth_token = tok, !.api_key = k],
              [ST2_ACTION_AUTH_TOKEN |-> e1, ST2_AUTH_TOKEN |-> e2,
               ST2_API_KEY |-> e3])

SpecCred == InitCred /\ [][Next]_vars

\* The rest of the process sets or unsets one of the environment variables
\* while run is in its loop.
EnvValues ==
    [ST2_ACTION_AUTH_TOKEN |-> {{}, {TokAction}},
     ST2_AUTH_TOKEN |-> {{}, {TokAuth}},
     ST2_API_KEY |-> {{}, {KeyEnv}}]
EnvChange ==
    /\ pc = "loop"
    /\ \E name \in DOMAIN EnvValues : \E e \in EnvValues[name] :
         /\ e # environ[name]
         /\ environ' = [environ EXCEPT ![name] = e]
    /\ UNCHANGED <<terms, kwargs, pc, idx, term, api_url, headers, scope, key,
                   values, requests, responses, warnings_disabled, result,
                   error>>

InitEnv ==
    \E ts \in Batches({<<"a">>}) :
    \E tok \in {{}, {TokArg}} :
    \E k \in {{}, {KeyArg}} :
    \E e1 \in EnvValues.ST2_ACTION_AUTH_TOKEN :
    \E e2 \in EnvValues.ST2_AUTH_TOKEN :
    \E e3 \in EnvValues.ST2_API_KEY :
        Enter(ts,
              [NoKwargs EXCEPT !.auth_token = tok, !.api_key = k],
              [ST2_ACTION_AUTH_TOKEN |-> e1, ST2_AUTH_TOKEN |-> e2,
               ST2_API_KEY |-> e3])

NextEnv == Iterate \/ Return \/ EnvChange

SpecEnv == InitEnv /\ [][NextEnv]_vars

\* ------------------------------------------------------------------ properties
\* The first non-empty (neither None nor '') value of a list of sources, or
\* None when there is none.
RECURSIVE FirstNonEmpty(_)
FirstNonEmpty(sources) ==
    IF sources = <<>> THEN None
    ELSE IF Head(sources) # None /\ Len(Head(sources)) > 0 THEN Head(sources)
    ELSE FirstNonEmpty(Tail(sources))

TokenSources ==
    <<Get(kwargs.auth_token, None), Get(environ.ST2_ACTION_AUTH_TOKEN, None),
      Get(environ.ST2_AUTH_TOKEN, None)>>
KeySources == <<Get(kwargs.api_key, None), Get(environ.ST2_API_KEY, None)>>
NoCredentials ==
    FirstNonEmpty(TokenSources) = None /\ FirstNonEmpty(KeySources) = None

HeaderNames(h) == {e.name : e \in h}

\* C1: every request carries exactly one auth header, chosen by the first
\* non-empty source in the order auth_token argument, ST2_ACTION_AUTH_TOKEN,
\* ST2_AUTH_TOKEN, api_key argument, ST2_API_KEY: X-Auth-Token with the first
\* non-empty token if there is one (whatever the api key sources hold),
\* otherwise St2-Api-Key with the first non-empty key.
C1_HeadersByPriority ==
    \A i \in 1..Len(requests) :
        LET h == requests[i].headers
            tok == FirstNonEmpty(TokenSources)
            k == FirstNonEmpty(KeySources)
        IN /\ Cardinality(h) = 1
           /\ HeaderNames(h) \in {{"X-Auth-Token"}, {"St2-Api-Key"}}
           /\ tok # None => h = {[name |-> "X-Auth-Token", value |-> tok]}
           /\ (tok = None /\ k # None) =>
                  h = {[name |-> "St2-Api-Key", value |-> k]}
           /\ ~NoCredentials

\* A request made with the third token source while both api key sources and
\* no earlier token source are set.
C1_Witness ==
    /\ Len(requests) = 2
    /\ kwargs.auth_token = {<<>>}
    /\ environ.ST2_ACTION_AUTH_TOKEN = {}
    /\ environ.ST2_AUTH_TOKEN = {TokAuth}
    /\ kwargs.api_key = {KeyArg}
    /\ environ.ST2_API_KEY = {KeyEnv}
    /\ requests[2].headers = {[name |-> "X-Auth-Token", value |-> TokAuth]}

\* C2 (as claimed): with no non-empty credential source, run never returns:
\* it ends in the missing-credentials error, and no request is made, whatever
\* the batch.
C2_NoCredentialsAlwaysFails ==
    NoCredentials =>
        /\ requests = <<>>
        /\ pc # "returned"
        /\ pc = "raised" => \E e \in error : e.cause = "no_auth"

\* The request the loop body builds for term t.
RequestFor(t) ==
    LET p == parse_scope_key(t)
    IN [url |-> build_url(resolve_api_url(kwargs), p.scope, p.key,
                          Get(kwargs.decrypt, FALSE), Get(kwargs.user, None)),
        headers |-> build_headers(resolve_auth_token(kwargs, environ),
                                  resolve_api_key(kwargs, environ)).headers,
        verify |-> Get(kwargs.ssl_verify, TRUE)]

GetFailures == {"conn_error", "http_error", "bad_json", "no_value"}

\* C3: when the request for the k-th term is the first to fail, exactly k
\* requests were made, for terms 1..k in order, the first k-1 answered with a
\* value; run is over (no later term is ever asked for), its error names the
\* k-th term and the failure, and nothing is returned.
C3_FailFast ==
    \A k \in 1..Len(responses) :
        responses[k].kind \in GetFailures =>
            /\ pc = "raised"
            /\ idx = k
            /\ Len(requests) = k
            /\ Len(responses) = k
            /\ \A i \in 1..k : requests[i] = RequestFor(terms[i])
            /\ \A i \in 1..(k - 1) : responses[i].kind = "ok"
            /\ error = {[term |-> terms[k], cause |-> responses[k].kind]}
            /\ result = {}
            /\ ~ENABLED Next

\* The second of three terms gets a non-success status after the first
\* resolved.
C3_Witness ==
    /\ pc = "raised"
    /\ Len(terms) = 3
    /\ idx = 2
    /\ Len(values) = 1
    /\ error = {[term |-> terms[2], cause |-> "http_error"]}

\* C4: when run returns, one request was made per term, in input order, and
\* the list returned holds, at each position, the value of the response to
\* that position's request.
C4_OrderPreserved ==
    pc = "returned" =>
        /\ Len(requests) = Len(terms)
        /\ Len(responses) = Len(terms)
        /\ \A i \in 1..Len(terms) : requests[i] = RequestFor(terms[i])
        /\ \E vs \in result :
             /\ result = {vs}
             /\ Len(vs) = Len(terms)
             /\ \A i \in 1..Len(terms) :
                  responses[i].kind = "ok" /\ vs[i] = responses[i].value

\* The same term three times, answered v1, v2, v1.
C4_Witness ==
    /\ pc = "returned"
    /\ terms = << <<"a">>, <<"a">>, <<"a">> >>
    /\ result = {<<"v1", "v2", "v1">>}

\* The option's value when the keyword argument is given and non-empty.
Given(entry) == entry # {} /\ entry # {None} /\ entry # {<<>>}

\* C5: the URL of every request is api_url, "/v1/keys/", the key, "?scope=",
\* the scope, then "&decrypt=true" iff decrypt is set, then "&user=" and the
\* user iff user is non-empty, in that order; the documented example gives
\* https://h/api/v1/keys/mykey?scope=user&decrypt=true&user=dave.
C5_UrlConstruction ==
    requests # <<>> =>
        LET url == requests[Len(requests)].url
            path == api_url \o <<"/","v","1","/","k","e","y","s","/">> \o key
                    \o <<"?","s","c","o","p","e","=">> \o scope
            d == IF kwargs.decrypt = {TRUE}
                 THEN <<"&","d","e","c","r","y","p","t","=","t","r","u","e">>
                 ELSE <<>>
            u == IF Given(kwargs.user)
                 THEN <<"&","u","s","e","r","=">> \o Get(kwargs.user, None)
                 ELSE <<>>
        IN /\ url = path \o d \o u
           /\ (/\ term = T_user_mykey
               /\ kwargs.api_url = {U_h_api}
               /\ kwargs.decrypt = {TRUE}
               /\ kwargs.user = {N_dave})
              => url = <<"h","t","t","p","s",":","/","/","h","/","a","p","i",
                         "/","v","1","/","k","e","y","s","/","m","y","k","e","y",
                         "?","s","c","o","p","e","=","u","s","e","r",
                         "&","d","e","c","r","y","p","t","=","t","r","u","e",
                         "&","u","s","e","r","=","d","a","v","e">>

\* The documented example has been requested.
C5_Witness ==
    /\ requests # <<>>
    /\ term = T_user_mykey
    /\ kwargs.api_url = {U_h_api}
    /\ kwargs.decrypt = {TRUE}
    /\ kwargs.user = {N_dave}

\* The positions of '.' in a string.
Dots(s) == {i \in 1..Len(s) : s[i] = "."}
FirstDot(s) == CHOOSE i \in Dots(s) : \A j \in Dots(s) : i <= j

C7_EmptyTermFailsBatch ==
    (term # Unbound /\ (term = None \/ term = <<>>) /\ ~NoCredentials) =>
        /\ parse_scope_key(term).raised = {"invalid_term"}
        /\ pc = "raised"
        /\ error = {[term |-> term, cause |-> "invalid_term"]}
        /\ terms[idx] = term
        /\ Len(requests) = idx - 1
        /\ \A i \in 1..Len(requests) : requests[i] = RequestFor(terms[i])
        /\ result = {}
        /\ ~ENABLED Next

\* An empty term in second place of three, after the first resolved.
C7_Witness ==
    /\ pc = "raised"
    /\ Len(terms) = 3
    /\ idx = 2
    /\ terms[2] = <<>>
    /\ Len(requests) = 1
    /\ Len(values) = 1

\* C8 (as claimed): a first part "st2kv" is removed and the rest parsed by the
\* two-part rule, so st2kv.system.mykey gives scope system, key mykey.
C8_St2kvPrefixRemoved ==
    (requests # <<>> /\ term # None /\ Len(term) > 0
       /\ split(term, ".")[1] = <<"s","t","2","k","v">>) =>
        /\ scope = parse_scope_key_strip_st2kv(term).scope
        /\ key = parse_scope_key_strip_st2kv(term).key

\* C9: the base URL is the api_url argument when it is non-empty; otherwise
\* https://<hostname>/api, or https://<hostname>:<port>/api when port is
\* non-empty, with hostname localhost when it is not given.  Every request's
\* URL starts with it.
C9_BaseUrl ==
    api_url # Unbound =>
        LET host == IF kwargs.hostname = {}
                    THEN <<"l","o","c","a","l","h","o","s","t">>
                    ELSE Get(kwargs.hostname, None)
            derived == IF Given(kwargs.port)
                       THEN <<"h","t","t","p","s",":","/","/">> \o host \o <<":">>
                            \o Get(kwargs.port, None) \o <<"/","a","p","i">>
                       ELSE <<"h","t","t","p","s",":","/","/">> \o host
                            \o <<"/","a","p","i">>
        IN /\ Given(kwargs.api_url) => api_url = Get(kwargs.api_url, None)
           /\ ~Given(kwargs.api_url) => api_url = derived
           /\ (~Given(kwargs.api_url) /\ kwargs.hostname = {}
                 /\ ~Given(kwargs.port))
              => api_url = <<"h","t","t","p","s",":","/","/",
                             "l","o","c","a","l","h","o","s","t","/","a","p","i">>
           /\ (~Given(kwargs.api_url) /\ kwargs.hostname = {H_st2_example}
                 /\ kwargs.port = {P_9101})
              => api_url = <<"h","t","t","p","s",":","/","/",
                             "s","t","2",".","e","x","a","m","p","l","e",":",
                             "9","1","0","1","/","a","p","i">>
           /\ \A i \in 1..Len(requests) :
                SubSeq(requests[i].url, 1, Len(api_url)) = api_url

\* A request made with hostname st2.example, port 9101 and an empty api_url.
C9_Witness ==
    /\ requests # <<>>
    /\ kwargs.api_url = {<<>>}
    /\ kwargs.hostname = {H_st2_example}
    /\ kwargs.port = {P_9101}

\* C10 (as claimed): all requests of one call carry the same auth header and
\* the same base URL, whatever happens to the environment variables during
\* the call.
C10_OneCredentialPerCall ==
    \A i, j \in 1..Len(requests) :
        /\ requests[i].headers = requests[j].headers
        /\ SubSeq(requests[i].url, 1, Len(api_url)) = api_url

====
